---- MODULE Spec2Model ----
(***************************************************************************)
(* A model of watchdog-console.py: the poll loop that discovers console   *)
(* processes hosting the Gemini CLI, reads their console title and screen *)
(* tail by attaching to their console, classifies each tracked target and *)
(* raises desktop notifications.                                          *)
(*                                                                         *)
(* Strings are modelled as sequences of tokens; a marker is "in" a string *)
(* when one of the tokens contains it.  The symbols of the titles are     *)
(* written "<diamond>" (U+25C7) and "<star>" (U+2726).                    *)
(***************************************************************************)
EXTENDS Integers, Sequences, FiniteSets, TLC

\* ------------------------------------------------------------------ bounds
\* Process ids the operating system hands out (besides the monitor's own).
NumPids == 2
\* Console window handles in use (0 stands for NULL / None).
NumHandles == 1

SelfPid == 0
Pids == 1..NumPids
Handles == 1..NumHandles
NoHwnd == 0
\* Window handles in the calls of is_window_active on its own.
MaxFocusHandle == 2

\* ------------------------------------------------------------- constants
read_len == 8000

\* The value None of the tuple (None, None, None).
None == <<"<None>">>

\* ------------------------------------------------------------ the inputs
\* Console titles the targets show.
Titles ==
    { <<>>,
      <<"Gemini">>,
      <<"<star>", "Working">>,
      <<"<diamond>", "Ready">>,
      <<"Working", "Ready">> }

\* Screen buffer contents (what ReadConsoleOutputCharacterW hands back).
Contents ==
    { <<>>,
      <<" ", "Gemini">>,
      <<"Action Required">>,
      <<"Keep trying">>,
      <<"Keep trying", "Stop">>,
      <<"Press tab to focus shell", "Keep trying", "Stop">> }

\* Titles of the foreground window.
FgTitles == { <<"Notepad">>, <<"Gemini">> }

\* Screen buffer sizes (dwSize.X, dwSize.Y) GetConsoleScreenBufferInfo reports.
BufferSizes == { <<0, 0>>, <<120, 300>> }

States == {"Unknown", "Working", "AwaitingInput", "HighDemand", "Ready"}

\* --------------------------------------------------------------- strings
\* marker in tok, for the tokens and markers of this model.
TokenHas(tok, marker) ==
    \/ tok = marker
    \/ tok = "gemini-cli" /\ marker = "gemini"

\* marker in s
In(marker, s) == \E i \in DOMAIN s : TokenHas(s[i], marker)

LowerToken(tok) ==
    CASE tok = "Gemini" -> "gemini"
      [] tok = "Working" -> "working"
      [] tok = "Ready" -> "ready"
      [] tok = "Notepad" -> "notepad"
      [] OTHER -> tok

\* s.lower()
Lower(s) == [i \in DOMAIN s |-> LowerToken(s[i])]

IsSpace(tok) == tok = " "

RECURSIVE LStrip(_)
LStrip(s) == IF s # <<>> /\ IsSpace(Head(s)) THEN LStrip(Tail(s)) ELSE s

RECURSIVE RStrip(_)
RStrip(s) ==
    IF s # <<>> /\ IsSpace(s[Len(s)]) THEN RStrip(SubSeq(s, 1, Len(s) - 1)) ELSE s

\* s.strip()
Strip(s) == RStrip(LStrip(s))

Max(a, b) == IF a >= b THEN a ELSE b

\* ------------------------------------------------------------- variables
VARIABLES
    alive,          \* the pids of the live processes (the monitor's excluded)
    stdoutOk,       \* whether a write to the monitor's standard output succeeds
    console,        \* the console the monitor is attached to: "own", "target", "none"
    targets,        \* the dictionary targets: pid -> [state, hwnd]
    pc,             \* the position of the poll loop
    candidates,     \* step 3: the candidates still to analyse
    tracked_hwnds,  \* step 3: the set tracked_hwnds
    pending,        \* step 4: the targets still to check
    pid,            \* the loop variable pid
    title,          \* the locals title, content, hwnd, last_state of the loop bodies
    content,
    hwnd,
    last_state,
    raised,         \* whether read_console_buffer raised instead of returning
    out,            \* what the last step did: its name, the notifications it
                    \* requested, the calls of notification.notify, the lines
                    \* logged, the exceptions its except clauses caught, what
                    \* AttachConsole(pid) answered ("ok", "failed"; "none"
                    \* when the step did not call it)
    stale,          \* the pids step 1 left in the dictionary although no
                    \* process had them
    freed,          \* until step 3 ends: the handles of the entries this
                    \* pass's step 1 deleted
    reclaimed,      \* the pids this pass's step 3 inserted with a freed handle
    orphaned,       \* the keys of the dictionary whose process (the one the
                    \* entry was made for) has exited
    call            \* a call of one function on its own: the arguments and,
                    \* once it has returned, the result (no such call in the
                    \* poll loop's specifications)

vars == <<alive, stdoutOk, console, targets, pc, candidates, tracked_hwnds,
          pending, pid, title, content, hwnd, last_state, raised, out,
          stale, freed, reclaimed, orphaned, call>>

\* The variables of the poll loop.
loop_vars == <<alive, stdoutOk, console, targets, pc, candidates, tracked_hwnds,
               pending, pid, title, content, hwnd, last_state, raised, out,
               stale, freed, reclaimed, orphaned>>

NoCall == [op |-> "none"]

locals == <<pid, title, content, hwnd, last_state, raised>>

Unset == "<unset>"

NoOut == [step |-> "none", requests |-> {}, notified |-> {}, logs |-> {},
          caught |-> {}, attach |-> "none"]

Did(step) == [NoOut EXCEPT !.step = step]

Line(kind, p) == [kind |-> kind, pid |-> p]

\* ------------------------------------------------------ is_window_active
\* A variant of is_window_active whose title tier forgets IsIconic.
is_window_active_title_only(h, fg) ==
    IF h = NoHwnd THEN FALSE
    ELSE IF h = fg.hwnd THEN ~fg.iconic
    ELSE LET fg_title == Lower(fg.title)
         IN  In("gemini", fg_title) \/ In("<diamond>", fg_title)
                \/ In("<star>", fg_title)

\* fg: what user32 answers: the foreground window, whether it is minimized
\* (IsIconic is only ever asked about the foreground window: hwnd equals it
\* in the first call), and its title.
is_window_active(h, fg) ==
    IF h = NoHwnd THEN FALSE
    ELSE IF h = fg.hwnd THEN ~fg.iconic
    ELSE LET fg_title == Lower(fg.title)
         IN  IF In("gemini", fg_title) \/ In("<diamond>", fg_title)
                  \/ In("<star>", fg_title)
             THEN ~fg.iconic
             ELSE FALSE

\* ----------------------------------------------------- show_notification
\* A variant of show_notification without the focus test.
show_notification_unfocused(kind, p, h, fg, notifyFails, ok) ==
    IF ~ok
    THEN [logs |-> {}, notified |-> {}, raised |-> TRUE]
    ELSE [logs |-> {[kind |-> "NOTIFICATION", pid |-> p]}
                   \cup (IF notifyFails
                         THEN {[kind |-> "Notification Failed", pid |-> p]} ELSE {}),
          notified |-> {[kind |-> kind, pid |-> p, delivered |-> ~notifyFails]},
          raised |-> FALSE]

\* A variant of show_notification without the try/except around
\* notification.notify: a failed delivery leaves the function as an exception.
show_notification_propagates(kind, p, h, fg, notifyFails, ok) ==
    IF h # NoHwnd /\ is_window_active(h, fg)
    THEN [logs |-> {}, notified |-> {}, raised |-> FALSE]
    ELSE IF ~ok
    THEN [logs |-> {}, notified |-> {}, raised |-> TRUE]
    ELSE [logs |-> {[kind |-> "NOTIFICATION", pid |-> p]},
          notified |-> {[kind |-> kind, pid |-> p, delivered |-> ~notifyFails]},
          raised |-> notifyFails]

\* A variant of show_notification that logs the request before the focus
\* test.
show_notification_logs_first(kind, p, h, fg, notifyFails, ok) ==
    IF ~ok
    THEN [logs |-> {}, notified |-> {}, raised |-> TRUE]
    ELSE IF h # NoHwnd /\ is_window_active(h, fg)
    THEN [logs |-> {[kind |-> "NOTIFICATION", pid |-> p]}, notified |-> {},
          raised |-> FALSE]
    ELSE [logs |-> {[kind |-> "NOTIFICATION", pid |-> p]}
                   \cup (IF notifyFails
                         THEN {[kind |-> "Notification Failed", pid |-> p]} ELSE {}),
          notified |-> {[kind |-> kind, pid |-> p, delivered |-> ~notifyFails]},
          raised |-> FALSE]

\* ok: whether log's write succeeds; notifyFails: notification.notify raises.
\* The result: the lines logged, the calls of notification.notify, and
\* whether an exception left the function.
show_notification(kind, p, h, fg, notifyFails, ok) ==
    IF h # NoHwnd /\ is_window_active(h, fg)
    THEN [logs |-> {}, notified |-> {}, raised |-> FALSE]
    ELSE IF ~ok
    THEN \* log("NOTIFICATION: ...") raises before notification.notify
         [logs |-> {}, notified |-> {}, raised |-> TRUE]
    ELSE [logs |-> {Line("NOTIFICATION", p)}
                   \cup (IF notifyFails THEN {Line("Notification Failed", p)} ELSE {}),
          notified |-> {[kind |-> kind, pid |-> p, delivered |-> ~notifyFails]},
          raised |-> FALSE]

\* What user32 can answer when a notification is requested.
Desktops == [hwnd : {NoHwnd} \cup Handles, iconic : BOOLEAN, title : FgTitles]

\* --------------------------------------------------- read_console_buffer
\* A Python int stored in a c_short field of a COORD: the low 16 bits, signed.
Short(v) == ((v + 32768) % 65536) - 32768

\* A variant of read_origin without the max(0, ...).
read_origin_unclamped(width, height) ==
    LET start_idx == (width * height) - read_len
    IN  [x |-> Short(start_idx % width), y |-> Short(start_idx \div width)]

\* The read origin COORD(start_x, start_y) of a buffer of width x height
\* cells; width is not 0.
read_origin(width, height) ==
    LET start_idx == Max(0, (width * height) - read_len)
        start_y == start_idx \div width
        start_x == start_idx % width
    IN  [x |-> Short(start_x), y |-> Short(start_y)]

\* A variant of read_console_buffer that does not test what AttachConsole
\* answered.
read_console_buffer_unchecked(os) ==
    [raised |-> FALSE, title |-> os.title,
     content |-> IF os.bufinfo /\ os.readok THEN os.content ELSE <<>>,
     hwnd |-> os.hwnd, console |-> "own"]

\* os: what kernel32 answers for this read.  The result: the tuple returned,
\* or raised; the console the monitor is attached to afterwards.
read_console_buffer(os) ==
    IF os.attach
    THEN IF os.bufinfo
         THEN LET width == os.size[1]
                  height == os.size[2]
              IN  IF width = 0
                  THEN \* start_idx // width: ZeroDivisionError, before the
                       \* FreeConsole() and AttachConsole(-1) of the way out
                       [raised |-> TRUE, title |-> None, content |-> None,
                        hwnd |-> NoHwnd, console |-> "target"]
                  ELSE [raised |-> FALSE, title |-> os.title,
                        content |-> IF os.readok THEN os.content ELSE <<>>,
                        hwnd |-> os.hwnd, console |-> "own",
                        origin |-> read_origin(width, height)]
         ELSE [raised |-> FALSE, title |-> os.title, content |-> <<>>,
               hwnd |-> os.hwnd, console |-> "own"]
    ELSE [raised |-> FALSE, title |-> None, content |-> None,
          hwnd |-> NoHwnd, console |-> "own"]

\* The answers kernel32 can give for a read; the fields a branch of
\* read_console_buffer does not look at are fixed.
AttachFails ==
    [attach |-> FALSE, title |-> <<>>, hwnd |-> NoHwnd, bufinfo |-> FALSE,
     size |-> <<0, 0>>, readok |-> FALSE, content |-> <<>>]

Attaches ==
    LET attached == { [AttachFails EXCEPT !.attach = TRUE, !.title = t, !.hwnd = h] :
                        t \in Titles, h \in {NoHwnd} \cup Handles }
        sized == { [a EXCEPT !.bufinfo = TRUE, !.size = s] :
                        a \in attached, s \in BufferSizes }
        read == { [a EXCEPT !.readok = TRUE, !.content = c] :
                        a \in {x \in sized : x.size[1] # 0}, c \in Contents }
    IN  attached \cup sized \cup read

\* AttachConsole(pid) refused; title and hwnd are what the calls after it
\* would hand back were they made all the same.
AttachFailures ==
    { [AttachFails EXCEPT !.title = t, !.hwnd = h] :
        t \in Titles, h \in {NoHwnd} \cup Handles }

\* AttachConsole(p) fails when no process p is left, and can fail when there
\* is one (no console, access denied).
OsAnswers(p) == IF p \in alive THEN AttachFailures \cup Attaches ELSE AttachFailures

\* ------------------------------------------------------------------ Init
InitLoop ==
    /\ alive = {}
    /\ stdoutOk = TRUE
    /\ console = "own"
    /\ targets = << >>
    /\ pc = "prune"
    /\ candidates = {}
    /\ tracked_hwnds = {}
    /\ pending = {}
    /\ pid = SelfPid
    /\ title = None
    /\ content = None
    /\ hwnd = NoHwnd
    /\ last_state = Unset
    /\ raised = FALSE
    /\ out = NoOut
    /\ stale = {}
    /\ freed = {}
    /\ reclaimed = {}
    /\ orphaned = {}

Init == InitLoop /\ call = NoCall

Tracked == DOMAIN targets

\* The locals of a loop body before its first statement.
ClearLocals ==
    /\ title' = None
    /\ content' = None
    /\ hwnd' = NoHwnd
    /\ last_state' = Unset

\* ------------------------------------------------- the outer except clause
\* except Exception as e: log(f"Loop Error: {e}"), then the polling delay.
\* When that log raises too, nothing catches it and the script ends.
LoopError(step) ==
    /\ pc' = IF stdoutOk THEN "sleep" ELSE "crashed"
    /\ out' = [Did(step) EXCEPT
                 !.logs = IF stdoutOk THEN {Line("Loop Error", SelfPid)} ELSE {},
                 !.caught = {[where |-> "pass", pid |-> SelfPid, exc |-> "Exception"]}]

\* ------------------------------------------------------- step 1: cleanup
\* A variant of dead_pids that finds no pid dead.
dead_pids_none == {}

\* The pids of the dictionary psutil.pid_exists denies.
dead_pids == {p \in Tracked : p \notin alive}

PruneDead ==
    /\ pc = "prune"
    /\ IF dead_pids # {} /\ ~stdoutOk
       THEN \* log("Target PID ... died. Removing.") raises in the first loop
            /\ LoopError("prune")
            /\ freed' = {}
            /\ UNCHANGED targets
       ELSE /\ targets' = [p \in Tracked \ dead_pids |-> targets[p]]
            /\ freed' = {targets[p].hwnd : p \in dead_pids} \ {NoHwnd}
            /\ pc' = "enumerate"
            /\ out' = [Did("prune") EXCEPT
                         !.logs = {Line("died", p) : p \in dead_pids}]
    /\ stale' = {p \in DOMAIN targets' : p \notin alive}
    /\ UNCHANGED <<reclaimed, alive, stdoutOk, console, candidates, tracked_hwnds, pending,
                   locals>>
    /\ orphaned' = orphaned \cap DOMAIN targets'
    /\ UNCHANGED call

\* Where the loop goes once the candidates in cs are left to analyse.
AfterCandidate(cs, tgts) ==
    IF cs # {} THEN "discover"
    ELSE IF DOMAIN tgts # {} THEN "monitor"
    ELSE "sleep"

\* --------------------------------------- step 2: the candidate processes
\* A variant of the set tracked_hwnds as it would be if it were built before
\* the cleanup: the handles of the deleted entries are still in it.
tracked_hwnds_before_cleanup(tgts) ==
    {tgts[p].hwnd : p \in {q \in DOMAIN tgts : tgts[q].hwnd # NoHwnd}} \cup freed

\* {info['hwnd'] for info in targets.values() if info['hwnd']}
tracked_hwnds_of(tgts) ==
    {tgts[p].hwnd : p \in {q \in DOMAIN tgts : tgts[q].hwnd # NoHwnd}}

\* A variant of candidates_of without the test "not in targets".
candidates_unfiltered(listed, tgts) == listed

\* The list candidates: the listed pids that are not keys of targets.
candidates_of(listed, tgts) == {p \in listed : p \notin DOMAIN tgts}

\* listed: the live processes whose name is one of node.exe, powershell.exe,
\* pwsh.exe, cmd.exe; iterFails: psutil.process_iter raises.
Enumerate ==
    /\ pc = "enumerate"
    /\ \E listed \in SUBSET (alive \cup {SelfPid}), iterFails \in BOOLEAN :
         IF iterFails
         THEN /\ LoopError("enumerate")
              /\ freed' = {}
              /\ UNCHANGED <<candidates, tracked_hwnds, pending>>
         ELSE /\ candidates' = candidates_of(listed, targets)
              /\ tracked_hwnds' = tracked_hwnds_of(targets)
              /\ pc' = AfterCandidate(candidates', targets)
              /\ pending' = IF pc' = "monitor" THEN Tracked ELSE pending
              /\ freed' = IF pc' = "discover" THEN freed ELSE {}
              /\ out' = Did("enumerate")
    /\ UNCHANGED <<alive, stdoutOk, console, targets, locals, stale, reclaimed>>
    /\ UNCHANGED orphaned
    /\ UNCHANGED call

\* ------------------------------------------ step 3: analyse the candidates
\* for pid in candidates, with the test for the monitor's own pid.  The
\* candidates are taken in any order: process_iter promises none.
DiscoverNext ==
    /\ pc = "discover"
    /\ \E p \in candidates :
         /\ candidates' = candidates \ {p}
         /\ pid' = p
         /\ IF p = SelfPid
            THEN \* continue
                 /\ pc' = AfterCandidate(candidates', targets)
                 /\ pending' = IF pc' = "monitor" THEN Tracked ELSE pending
            ELSE /\ pc' = "read_candidate"
                 /\ UNCHANGED pending
    /\ ClearLocals
    /\ freed' = IF pc' \in {"discover", "read_candidate"} THEN freed ELSE {}
    /\ out' = Did("next_candidate")
    /\ UNCHANGED <<alive, stdoutOk, console, targets, tracked_hwnds, raised,
                   stale, reclaimed>>
    /\ UNCHANGED orphaned
    /\ UNCHANGED call

\* title, content, hwnd = read_console_buffer(pid)
Read(step, after) ==
    /\ \E os \in OsAnswers(pid) :
         LET r == read_console_buffer(os)
         IN  /\ console' = r.console
             /\ raised' = r.raised
             /\ title' = r.title
             /\ content' = r.content
             /\ hwnd' = r.hwnd
             /\ out' = [Did(step) EXCEPT
                          !.attach = IF os.attach THEN "ok" ELSE "failed"]
    /\ pc' = after
    /\ UNCHANGED <<alive, stdoutOk, targets, candidates, tracked_hwnds, pending,
                   pid, last_state, stale, freed, reclaimed>>
    /\ UNCHANGED orphaned
    /\ UNCHANGED call

DiscoverRead ==
    /\ pc = "read_candidate"
    /\ Read("read_candidate", "check")

\* A variant of already_tracked that forgets the test.
already_tracked_never(h, hwnds) == FALSE

\* if hwnd and hwnd in tracked_hwnds
already_tracked(h, hwnds) == h # NoHwnd /\ h \in hwnds

\* A variant of is_gemini_title that tests the title as it is, not lowered.
is_gemini_title_case_sensitive(t) ==
    /\ t # <<>>
    /\ \/ In("gemini", t)
       \/ In("gemini-cli", t)
       \/ In("dist\\index.js", t)
       \/ In("<diamond>", t)
       \/ In("<star>", t)

\* The marker test on the candidate's title.
is_gemini_title(t) ==
    LET title_lower == Lower(t)
    IN  /\ t # <<>>
        /\ \/ In("gemini", title_lower)
           \/ In("gemini-cli", title_lower)
           \/ In("dist\\index.js", title_lower)
           \/ In("<diamond>", t)
           \/ In("<star>", t)

\* What an except clause caught: where (the handler of one candidate, of one
\* target, of the pass), for which pid, and the exception.
Caught(where, exc) ==
    [Did("check") EXCEPT !.caught = {[where |-> where, pid |-> pid, exc |-> exc]}]

\* The rest of the loop body, up to the bare except.
DiscoverCheck ==
    /\ pc = "check"
    /\ IF raised
       THEN \* read_console_buffer raised; except: pass
            /\ out' = Caught("candidate", "ZeroDivisionError")
            /\ UNCHANGED <<targets, tracked_hwnds, reclaimed>>
       ELSE IF already_tracked(hwnd, tracked_hwnds)
       THEN \* continue
            /\ out' = Did("check")
            /\ UNCHANGED <<targets, tracked_hwnds, reclaimed>>
       ELSE IF title = None
       THEN \* title.lower() raises AttributeError; except: pass
            /\ out' = Caught("candidate", "AttributeError")
            /\ UNCHANGED <<targets, tracked_hwnds, reclaimed>>
       ELSE IF is_gemini_title(title)
       THEN /\ targets' = [p \in Tracked \cup {pid} |->
                             IF p = pid THEN [state |-> "Unknown", hwnd |-> hwnd]
                             ELSE targets[p]]
            /\ tracked_hwnds' = tracked_hwnds \cup {hwnd}
            /\ reclaimed' = IF hwnd \in freed THEN reclaimed \cup {pid}
                             ELSE reclaimed
            /\ out' = Did("check")
       ELSE /\ out' = Did("check")
            /\ UNCHANGED <<targets, tracked_hwnds, reclaimed>>
    /\ raised' = FALSE
    /\ pc' = AfterCandidate(candidates, targets')
    /\ pending' = IF pc' = "monitor" THEN DOMAIN targets' ELSE pending
    /\ freed' = IF pc' = "discover" THEN freed ELSE {}
    /\ UNCHANGED <<alive, stdoutOk, console, candidates, pid, title, content,
                   hwnd, last_state, stale>>
    /\ UNCHANGED orphaned
    /\ UNCHANGED call

\* ------------------------------------------- step 4: the state of a target
\* A variant of classify whose first two rules take no account of the order:
\* the Working title wins over the screen markers.
classify_title_first(t, c, last) ==
    LET keep == [state |-> last, request |-> "none"]
    IN  IF c = <<>> THEN keep
        ELSE IF In("Working", t) \/ In("<star>", t)
        THEN IF last # "Working" THEN [state |-> "Working", request |-> "none"]
             ELSE keep
        ELSE IF \/ In("Interactive shell awaiting input", Strip(c))
                \/ In("Action Required", Strip(c))
                \/ In("Press tab to focus shell", Strip(c))
        THEN IF last # "AwaitingInput"
             THEN [state |-> "AwaitingInput", request |-> "Action Required"]
             ELSE keep
        ELSE IF In("Keep trying", Strip(c)) /\ In("Stop", Strip(c))
        THEN IF last # "HighDemand"
             THEN [state |-> "HighDemand", request |-> "Task Failed - High Demand"]
             ELSE keep
        ELSE IF In("Ready", t) \/ In("<diamond>", t)
        THEN IF last = "Working" \/ last = "AwaitingInput"
             THEN [state |-> "Ready", request |-> "Task Finished"]
             ELSE keep
        ELSE keep

\* A variant of classify that asks for the "Action Required" notification
\* whatever the state was.
classify_renotify(t, c, last) ==
    IF c # <<>> /\ In("Action Required", Strip(c))
    THEN [state |-> "AwaitingInput", request |-> "Action Required"]
    ELSE [state |-> last, request |-> "none"]

\* A variant of classify whose Ready rule takes no account of the state.
classify_ready_always(t, c, last) ==
    IF c # <<>> /\ (In("Working", t) \/ In("<star>", t))
    THEN [state |-> "Working", request |-> "none"]
    ELSE IF c # <<>> /\ (In("Ready", t) \/ In("<diamond>", t)) /\ last # "Ready"
    THEN [state |-> "Ready", request |-> "Task Finished"]
    ELSE [state |-> last, request |-> "none"]

\* A variant of classify whose Working rule asks for a notification.
classify_working_notifies(t, c, last) ==
    IF c # <<>> /\ (In("Working", t) \/ In("<star>", t)) /\ last # "Working"
    THEN [state |-> "Working", request |-> "Working"]
    ELSE [state |-> last, request |-> "none"]

\* The if/elif chain on (title, content) for a target whose state is
\* last_state: the state the chain assigns and the notification it asks for
\* ("none" when it asks for none).
classify(t, c, last) ==
    LET keep == [state |-> last, request |-> "none"]
    IN  IF c = <<>> THEN keep
        ELSE LET clean_content == Strip(c)
             IN  IF \/ In("Interactive shell awaiting input", clean_content)
                    \/ In("Action Required", clean_content)
                    \/ In("Press tab to focus shell", clean_content)
                 THEN IF last # "AwaitingInput"
                      THEN [state |-> "AwaitingInput", request |-> "Action Required"]
                      ELSE keep
                 ELSE IF In("Keep trying", clean_content) /\ In("Stop", clean_content)
                 THEN IF last # "HighDemand"
                      THEN [state |-> "HighDemand",
                            request |-> "Task Failed - High Demand"]
                      ELSE keep
                 ELSE IF In("Working", t) \/ In("<star>", t)
                 THEN IF last # "Working"
                      THEN [state |-> "Working", request |-> "none"]
                      ELSE keep
                 ELSE IF In("Ready", t) \/ In("<diamond>", t)
                 THEN IF last = "Working" \/ last = "AwaitingInput"
                      THEN [state |-> "Ready", request |-> "Task Finished"]
                      ELSE keep
                 ELSE keep

\* for pid in list(targets.keys()).  The dictionary is walked in insertion
\* order, one of the orders taken here.
MonitorNext ==
    /\ pc = "monitor"
    /\ \E p \in pending :
         /\ pending' = pending \ {p}
         /\ pid' = p
    /\ pc' = "read_target"
    /\ ClearLocals
    /\ out' = Did("next_target")
    /\ UNCHANGED <<alive, stdoutOk, console, targets, candidates, tracked_hwnds,
                   raised, stale, freed, reclaimed>>
    /\ UNCHANGED orphaned
    /\ UNCHANGED call

MonitorRead ==
    /\ pc = "read_target"
    /\ Read("read_target", "classify")

\* Where the loop goes after the body of step 4.
AfterTarget == IF pending # {} THEN "monitor" ELSE "sleep"

\* A variant of TargetError that gives up the pass.
TargetErrorAborts(done, exc) ==
    /\ pc' = IF stdoutOk THEN "sleep" ELSE "crashed"
    /\ out' = [done EXCEPT
                 !.logs = @ \cup {Line("Error checking PID", pid)},
                 !.caught = {[where |-> "target", pid |-> pid, exc |-> exc]}]

\* except Exception as e: log(f"Error checking PID {pid}: {e}"); when that log
\* raises, the outer except clause takes over, and its log raises as well.
TargetError(done, exc) ==
    /\ pc' = IF stdoutOk THEN AfterTarget ELSE "crashed"
    /\ out' = [done EXCEPT
                 !.logs = IF stdoutOk THEN @ \cup {Line("Error checking PID", pid)}
                          ELSE @,
                 !.caught = {[where |-> "target", pid |-> pid, exc |-> exc]}
                            \cup (IF stdoutOk THEN {}
                                  ELSE {[where |-> "pass", pid |-> SelfPid,
                                         exc |-> "OSError"]})]

\* The rest of the loop body of step 4.
MonitorClassify ==
    /\ pc = "classify"
    /\ IF raised
       THEN /\ TargetError(Did("classify"), "ZeroDivisionError")
            /\ UNCHANGED <<targets, last_state>>
       ELSE IF title = None
       THEN \* continue
            /\ pc' = AfterTarget
            /\ out' = Did("classify")
            /\ UNCHANGED <<targets, last_state>>
       ELSE LET c == classify(title, content, targets[pid].state)
            IN  /\ last_state' = targets[pid].state
                /\ IF c.request = "none"
                   THEN /\ targets' = [targets EXCEPT ![pid].state = c.state]
                        /\ pc' = AfterTarget
                        /\ out' = Did("classify")
                   ELSE \E fg \in Desktops, notifyFails \in BOOLEAN :
                        LET n == show_notification(c.request, pid, hwnd, fg,
                                                   notifyFails, stdoutOk)
                            done == [Did("classify") EXCEPT
                                       !.requests =
                                          {[kind |-> c.request, pid |-> pid,
                                            hwnd |-> hwnd,
                                            focused |-> is_window_active(hwnd, fg)]},
                                       !.notified = n.notified,
                                       !.logs = n.logs]
                        IN  IF n.raised
                            THEN /\ TargetError(done, "OSError")
                                 /\ UNCHANGED targets
                            ELSE /\ targets' = [targets EXCEPT ![pid].state = c.state]
                                 /\ pc' = AfterTarget
                                 /\ out' = done
    /\ raised' = FALSE
    /\ UNCHANGED <<alive, stdoutOk, console, candidates, tracked_hwnds, pending,
                   pid, title, content, hwnd, stale, freed, reclaimed>>
    /\ UNCHANGED orphaned
    /\ UNCHANGED call

\* ------------------------------------------------------ the polling delay
\* time.sleep(2); the locals of the loop bodies are dead in the next pass.
Sleep ==
    /\ pc = "sleep"
    /\ pc' = "prune"
    /\ out' = Did("sleep")
    /\ pid' = SelfPid
    /\ ClearLocals
    /\ reclaimed' = {}
    /\ UNCHANGED <<alive, stdoutOk, console, targets, candidates, tracked_hwnds,
                   pending, raised, stale, freed>>
    /\ UNCHANGED orphaned
    /\ UNCHANGED call

\* -------------------------------------------------------- the environment
\* The program looks at the processes in steps 1 and 2 and in each read.
Observing == pc \in {"prune", "enumerate", "read_candidate", "read_target"}

\* A process starts; its pid may have belonged to a process that exited.
Spawn ==
    /\ Observing
    /\ \E p \in Pids \ alive : alive' = alive \cup {p}
    /\ UNCHANGED <<stdoutOk, console, targets, pc, candidates, tracked_hwnds,
                   pending, locals, out, stale, freed, reclaimed>>
    /\ UNCHANGED orphaned
    /\ UNCHANGED call

Exit ==
    /\ Observing
    /\ \E p \in alive :
         /\ alive' = alive \ {p}
         /\ orphaned' = IF p \in Tracked THEN orphaned \cup {p} ELSE orphaned
    /\ UNCHANGED <<stdoutOk, console, targets, pc, candidates, tracked_hwnds,
                   pending, locals, out, stale, freed, reclaimed>>
    /\ UNCHANGED call

\* Standard output stops taking writes (a closed pipe, a closed console).
BreakStdout ==
    /\ Observing
    /\ stdoutOk
    /\ stdoutOk' = FALSE
    /\ UNCHANGED <<alive, console, targets, pc, candidates, tracked_hwnds,
                   pending, locals, out, stale, freed, reclaimed>>
    /\ UNCHANGED orphaned
    /\ UNCHANGED call

Next ==
    \/ PruneDead
    \/ Enumerate
    \/ DiscoverNext
    \/ DiscoverRead
    \/ DiscoverCheck
    \/ MonitorNext
    \/ MonitorRead
    \/ MonitorClassify
    \/ Sleep
    \/ Spawn
    \/ Exit

\* The poll loop while writes to standard output succeed.
Spec == Init /\ [][Next]_vars

NextLog == Next \/ BreakStdout

\* The poll loop when standard output can stop taking writes.
SpecLog == Init /\ [][NextLog]_vars

\* ------------------------------------------- is_window_active on its own
\* Titles of the foreground window in these calls.
FocusTitles ==
    FgTitles \cup { <<>>, <<"gemini">>, <<"gemini-cli">>, <<"<diamond>", "Ready">>,
                    <<"<star>", "Working">>, <<"Windows", "Terminal">> }

FocusCalls ==
    [op : {"is_window_active"},
     hwnd : 0..MaxFocusHandle,
     fg : [hwnd : 0..MaxFocusHandle, iconic : BOOLEAN, title : FocusTitles],
     returned : {FALSE}, result : {FALSE}]

InitFocus == InitLoop /\ call \in FocusCalls

\* is_window_active(hwnd) with user32 answering fg.
IsWindowActiveCall ==
    /\ call.op = "is_window_active"
    /\ ~call.returned
    /\ call' = [call EXCEPT !.returned = TRUE,
                            !.result = is_window_active(call.hwnd, call.fg)]
    /\ UNCHANGED loop_vars

\* Every call of is_window_active.
SpecFocus == InitFocus /\ [][IsWindowActiveCall]_vars

\* ---------------------------------------------- the read origin on its own
\* Buffer sizes (dwSize.X, dwSize.Y) of at least one cell; both are SHORTs.
OriginWidths == {1, 2, 3, 80, 120, 7999, 8000, 8001, 32767}

OriginHeights == {1, 2, 25, 66, 67, 100, 300, 9001, 32766, 32767}

OriginCalls ==
    [op : {"read_origin"}, width : OriginWidths, height : OriginHeights,
     returned : {FALSE}, result : {[x |-> 0, y |-> 0]}]

InitOrigin == InitLoop /\ call \in OriginCalls

\* Lines 112-115 of read_console_buffer for a buffer of width x height.
ReadOriginCall ==
    /\ call.op = "read_origin"
    /\ ~call.returned
    /\ call' = [call EXCEPT !.returned = TRUE,
                            !.result = read_origin(call.width, call.height)]
    /\ UNCHANGED loop_vars

\* Every computation of the read origin.
SpecOrigin == InitOrigin /\ [][ReadOriginCall]_vars

\* ============================================================ properties
\* The markers of section 4.5, as the classification rules name them.
AwaitingInputMarkers ==
    {"Interactive shell awaiting input", "Action Required", "Press tab to focus shell"}

HasAwaitingInput(c) == \E m \in AwaitingInputMarkers : In(m, c)
HasHighDemand(c) == In("Keep trying", c) /\ In("Stop", c)
HasWorkingTitle(t) == In("Working", t) \/ In("<star>", t)
HasReadyTitle(t) == In("Ready", t) \/ In("<diamond>", t)

\* The last step was the loop body of step 4 and it got as far as the
\* if/elif chain: pid's state was last_state, the input is (title, content).
Classified == out.step = "classify" /\ last_state # Unset

Requested(kind) == \E r \in out.requests : r.kind = kind

\* ---------------------------------------------------------------- C1
OneTargetPerHandle ==
    \A p, q \in Tracked :
        p # q /\ targets[p].hwnd # NoHwnd => targets[p].hwnd # targets[q].hwnd

\* C1: no two distinct tracked pids hold the same present console handle, and
\* the pid that holds a handle keeps it for as long as it is tracked: a later
\* candidate with the same handle never takes its place.
C1_OneTargetPerHandle ==
    /\ []OneTargetPerHandle
    /\ [][\A p \in Tracked \cap DOMAIN targets' :
             targets'[p].hwnd = targets[p].hwnd]_vars

\* A candidate with a marker in its title was read and not inserted: another
\* pid holds its console handle.
C1_Witness ==
    /\ out.step = "check"
    /\ hwnd # NoHwnd
    /\ is_gemini_title(title)
    /\ pid \notin Tracked
    /\ \E p \in Tracked : targets[p].hwnd = hwnd

\* ---------------------------------------------------------------- C2
\* C2: first match wins: an AwaitingInput marker on the screen gives
\* AwaitingInput whatever the title; otherwise retry and stop phrases give
\* HighDemand whatever the title; a target becomes Working only when neither
\* matched, and becomes Ready only when none of the three matched.
C2_Precedence ==
    Classified =>
        LET state == targets[pid].state
        IN  /\ HasAwaitingInput(content) =>
                 /\ state = "AwaitingInput"
                 /\ \A r \in out.requests : r.kind = "Action Required"
            /\ ~HasAwaitingInput(content) /\ HasHighDemand(content) =>
                 /\ state = "HighDemand"
                 /\ \A r \in out.requests : r.kind = "Task Failed - High Demand"
            /\ state = "Working" /\ last_state # "Working" =>
                 /\ ~HasAwaitingInput(content) /\ ~HasHighDemand(content)
                 /\ HasWorkingTitle(title)
            /\ (state = "Ready" /\ last_state # "Ready") \/ Requested("Task Finished") =>
                 /\ ~HasAwaitingInput(content) /\ ~HasHighDemand(content)
                 /\ ~HasWorkingTitle(title)
                 /\ HasReadyTitle(title)

\* A Working title and an AwaitingInput marker together: AwaitingInput.
C2_Witness ==
    /\ Classified
    /\ HasAwaitingInput(content)
    /\ HasHighDemand(content)
    /\ HasWorkingTitle(title)
    /\ last_state = "Working"
    /\ targets[pid].state = "AwaitingInput"
    /\ Requested("Action Required")

\* ---------------------------------------------------------------- C3
\* C3: the state of a tracked target changes in its own classification step
\* only, and the state that step leaves asks for no notification when the
\* same (title, content) is classified again: the same input on the next pass
\* requests nothing.
C3_NoDuplicate ==
    /\ [](Classified =>
            classify(title, content, targets[pid].state).request = "none")
    /\ [][\A p \in Tracked \cap DOMAIN targets' :
             targets'[p].state # targets[p].state => pc = "classify" /\ pid = p]_vars

\* The marker is still on the screen of a target that is AwaitingInput
\* already: nothing is requested.
C3_Witness ==
    /\ Classified
    /\ HasAwaitingInput(content)
    /\ last_state = "AwaitingInput"
    /\ targets[pid].state = "AwaitingInput"
    /\ out.requests = {}

\* ---------------------------------------------------------------- C4
ReadyRuleFirst(t, c) ==
    /\ c # <<>>
    /\ ~HasAwaitingInput(c) /\ ~HasHighDemand(c) /\ ~HasWorkingTitle(t)
    /\ HasReadyTitle(t)

\* C4: "Task Finished" and the move to Ready happen only from Working or
\* AwaitingInput; when the Ready rule is the one that matches in state
\* Unknown, Ready or HighDemand, nothing is requested and the state stays.
C4_ReadyOnlyAfterActivity ==
    /\ [](Classified =>
            /\ Requested("Task Finished") =>
                 /\ last_state \in {"Working", "AwaitingInput"}
                 /\ targets[pid].state = "Ready"
            /\ ReadyRuleFirst(title, content)
                 /\ last_state \in {"Unknown", "Ready", "HighDemand"} =>
                 /\ out.requests = {}
                 /\ targets[pid].state = last_state)
    /\ [][\A p \in DOMAIN targets' :
             targets'[p].state = "Ready" =>
                 /\ p \in Tracked
                 /\ targets[p].state \in {"Working", "AwaitingInput", "Ready"}]_vars

\* The Ready title on a Working target: Ready, "Task Finished".
C4_Witness ==
    /\ Classified
    /\ ReadyRuleFirst(title, content)
    /\ last_state = "Working"
    /\ targets[pid].state = "Ready"
    /\ Requested("Task Finished")

\* ---------------------------------------------------------------- C5
Invoked(r) == \E n \in out.notified : n.kind = r.kind /\ n.pid = r.pid

\* C5: notification.notify is called for a request exactly when the window
\* of the request is not focused; it is called when the handle is absent.
C5_NotifyIffNotFocused ==
    \A r \in out.requests :
        /\ Invoked(r) <=> ~r.focused
        /\ r.hwnd = NoHwnd => Invoked(r)

\* A request for a focused window: no call of notification.notify.
C5_Witness ==
    \E r \in out.requests : r.focused /\ out.notified = {}

\* ---------------------------------------------------------------- C6
\* C6: between the reads the monitor is attached to its own console: every
\* exit path of read_console_buffer has re-attached it, and no read starts
\* before the console is restored from the one before.
C6_ConsoleRestored == console = "own"

\* ---------------------------------------------------------------- C7
\* C7: the poll loop never stops, whatever fails during a pass, logging
\* included.
C7_LoopNeverStops == pc # "crashed"

\* ---------------------------------------------------------------- C8
PerEntity == {"candidate", "target"}

C9_DeadPruned ==
    /\ [](stale = {})
    /\ [](pc \in {"read_target", "classify"} => pid \in Tracked /\ pid \notin stale)
    /\ [][pc = "prune" /\ pc' = "enumerate" =>
             \A p \in Tracked : p \notin alive => p \notin DOMAIN targets']_vars

\* Step 1 has just deleted the entry of a dead pid.
C9_Witness ==
    /\ out.step = "prune"
    /\ \E l \in out.logs : l.kind = "died" /\ l.pid \notin Tracked

\* --------------------------------------------------------------- C10
HasCliMarker(t) ==
    \/ In("gemini", Lower(t)) \/ In("dist\\index.js", Lower(t))
    \/ In("<diamond>", t) \/ In("<star>", t)

\* C10 as stated: a candidate that took over the handle of a target deleted
\* by this pass's cleanup is tracked in state Unknown at the end of the pass.
C10_ReclaimedUnknownAtPassEnd ==
    pc = "sleep" =>
        \A q \in reclaimed : q \in Tracked /\ targets[q].state = "Unknown"

\* C10, amended: cleanup comes first: it deletes the entries of the dead pids
\* and the handles of those entries are not in tracked_hwnds when discovery
\* starts; a candidate read with such a handle and a marker in its title,
\* the handle not taken again meanwhile, is inserted with that handle in
\* state Unknown; at the end of the pass it is still tracked with that
\* handle, in the state the pass's classification left it (never Ready).
C10_FreedHandleReclaimed ==
    /\ [][pc = "prune" /\ pc' = "enumerate" =>
             \A p \in Tracked : p \notin alive =>
                 /\ p \notin DOMAIN targets'
                 /\ targets[p].hwnd # NoHwnd => targets[p].hwnd \in freed']_vars
    /\ [](pc \in {"discover", "read_candidate", "check"} =>
            \A h \in freed : h \in tracked_hwnds =>
                \E p \in Tracked : targets[p].hwnd = h)
    /\ [][pc = "check" /\ ~raised /\ hwnd \in freed /\ hwnd \notin tracked_hwnds
             /\ HasCliMarker(title) =>
             /\ pid \in DOMAIN targets'
             /\ targets'[pid] = [state |-> "Unknown", hwnd |-> hwnd]
             /\ pid \in reclaimed']_vars
    /\ [](\A q \in reclaimed :
            /\ q \in Tracked
            /\ targets[q].hwnd \in Handles
            /\ targets[q].state \in States \ {"Ready"})

\* The pass ends with a target on a reclaimed handle that the same pass
\* has classified already.
C10_Witness ==
    /\ pc = "sleep"
    /\ \E q \in reclaimed : q \in Tracked /\ targets[q].state = "AwaitingInput"

\* --------------------------------------------------------------- C11
\* C11: a target whose console attached and whose screen buffer gave no
\* content is classified by its title in that pass: a Working title moves a
\* target that is not Working to Working; a Ready title (and no Working one)
\* moves a target that is Working or AwaitingInput to Ready and requests
\* "Task Finished".
C11_TitleRulesOnEmptyContent ==
    Classified /\ content = <<>> =>
        /\ HasWorkingTitle(title) /\ last_state # "Working" =>
             targets[pid].state = "Working"
        /\ ~HasWorkingTitle(title) /\ HasReadyTitle(title)
             /\ last_state \in {"Working", "AwaitingInput"} =>
             targets[pid].state = "Ready" /\ Requested("Task Finished")

\* --------------------------------------------------------------- C12
\* The candidate of the loop body has been read (no exception, the console
\* attached) and its handle is not in tracked_hwnds.
CandidateRead ==
    /\ pc = "check"
    /\ ~raised
    /\ title # None
    /\ ~(hwnd # NoHwnd /\ hwnd \in tracked_hwnds)

\* C12 as stated: such a candidate is inserted exactly when its title or its
\* screen content holds a CLI marker.
C12_PromotedOnTitleOrContent ==
    [][CandidateRead =>
          (pid \in DOMAIN targets' <=> HasCliMarker(title) \/ HasCliMarker(content))]_vars

\* C12, amended: such a candidate is inserted, in state Unknown and with the
\* handle read, exactly when its title holds a CLI marker; the screen
\* content plays no part, and without a marker in the title the registry is
\* left as it was.
C12_PromotedOnTitleOnly ==
    [][CandidateRead =>
          IF HasCliMarker(title)
          THEN /\ pid \in DOMAIN targets'
               /\ targets'[pid] = [state |-> "Unknown", hwnd |-> hwnd]
               /\ \A p \in Tracked : targets'[p] = targets[p]
          ELSE targets' = targets]_vars

\* A candidate with a marker on its screen and none in its title was read
\* and not inserted.
C12_Witness ==
    /\ out.step = "check"
    /\ out.caught = {}
    /\ title # None
    /\ ~HasCliMarker(title)
    /\ HasCliMarker(content)
    /\ pid \notin Tracked

\* --------------------------------------------------------------- C13
\* C13: after a read whose AttachConsole(pid) failed, the loop body of a
\* candidate leaves the registry and tracked_hwnds as they were, and the
\* loop body of a target leaves the registry (the target's state and handle)
\* as it was and requests no notification.
C13_AttachFailureNoChange ==
    [][out.attach = "failed" =>
          /\ pc = "check" => targets' = targets /\ tracked_hwnds' = tracked_hwnds
          /\ pc = "classify" =>
                /\ targets' = targets
                /\ out'.requests = {} /\ out'.notified = {}]_vars

\* The attach to a live target in state Working failed: the target was left
\* as it was.
C13_Witness ==
    /\ out.step = "classify"
    /\ out.caught = {}
    /\ title = None
    /\ pid \in Tracked /\ pid \in alive
    /\ targets[pid].state = "Working"

\* --------------------------------------------------------------- C14
\* The chain reaches the Working rule and the rule matches.
WorkingRuleFirst(t, c) ==
    /\ c # <<>>
    /\ ~HasAwaitingInput(c) /\ ~HasHighDemand(c)
    /\ HasWorkingTitle(t)

C15_RequestLogged ==
    \A r \in out.requests : Line("NOTIFICATION", r.pid) \in out.logs

\* C15, amended: a notification request is logged exactly when it is not
\* suppressed: the NOTIFICATION line is written when the request goes on to
\* notification.notify, and nothing at all is logged for a request that is
\* suppressed because the window is focused.
C15_LoggedIffNotSuppressed ==
    \A r \in out.requests :
        /\ Line("NOTIFICATION", r.pid) \in out.logs <=> ~r.focused
        /\ r.focused => out.logs = {}
        /\ Line("NOTIFICATION", r.pid) \in out.logs => Invoked(r)

\* A request for "Task Finished" was suppressed: no log line.
C15_Witness ==
    \E r \in out.requests :
        r.kind = "Task Finished" /\ r.focused /\ out.logs = {}

\* --------------------------------------------------------------- C16
\* The state each notification comes with.
StateOf(kind) ==
    CASE kind = "Action Required" -> "AwaitingInput"
      [] kind = "Task Failed - High Demand" -> "HighDemand"
      [] kind = "Task Finished" -> "Ready"

\* C16: the step that requests a notification commits the state of its rule
\* whether the notification was delivered, suppressed or failed in delivery,
\* a failed delivery is caught inside show_notification, and with the state
\* committed the same input requests nothing again.
C16_StateCommitted ==
    \A r \in out.requests :
        /\ r.pid = pid
        /\ targets[pid].state = StateOf(r.kind)
        /\ out.caught = {}
        /\ \A n \in out.notified :
              ~n.delivered => Line("Notification Failed", pid) \in out.logs
        /\ classify(title, content, targets[pid].state).request = "none"

\* The delivery of "Task Failed - High Demand" failed: HighDemand all the same.
C16_Witness ==
    /\ \E r \in out.requests : r.kind = "Task Failed - High Demand" /\ ~r.focused
    /\ \E n \in out.notified : ~n.delivered
    /\ last_state # "HighDemand"
    /\ targets[pid].state = "HighDemand"

\* --------------------------------------------------------------- C17
\* C17: the monitor's own pid is never a key of the registry; no key of the
\* registry is a candidate still to analyse or the candidate being analysed;
\* for a pid that stays in the registry the handle is never replaced and a
\* state other than Unknown never goes back to Unknown.
C17_DiscoveryKeepsTargets ==
    /\ [](SelfPid \notin Tracked)
    /\ [](pc \in {"discover", "read_candidate", "check"} =>
            candidates \cap Tracked = {})
    /\ [](pc \in {"read_candidate", "check"} => pid \notin Tracked)
    /\ [][\A p \in Tracked \cap DOMAIN targets' :
             /\ targets'[p].hwnd = targets[p].hwnd
             /\ targets[p].state # "Unknown" => targets'[p].state # "Unknown"]_vars

\* Discovery has just inserted a target next to one that is Working, and
\* that one is Working still.
C17_Witness ==
    /\ out.step = "check"
    /\ pid \in Tracked
    /\ targets[pid].state = "Unknown"
    /\ \E p \in Tracked \ {pid} : p \in alive /\ targets[p].state = "Working"

\* --------------------------------------------------------------- C18
HasFocusMarker(t) ==
    \/ \E i \in DOMAIN t : t[i] \in {"gemini", "Gemini", "gemini-cli"}
    \/ \E i \in DOMAIN t : t[i] \in {"<diamond>", "<star>"}

\* The two-tier reference of IsFocused.
IsFocusedReference(h, fg) ==
    /\ h # NoHwnd
    /\ ~fg.iconic
    /\ h = fg.hwnd \/ HasFocusMarker(fg.title)

\* C18: is_window_active returns the two-tier reference for every handle,
\* foreground window, minimized flag and foreground title; it returns false
\* for an absent handle and whenever the foreground window is minimized.
C18_IsFocusedReference ==
    call.op = "is_window_active" /\ call.returned =>
        /\ call.result = IsFocusedReference(call.hwnd, call.fg)
        /\ call.hwnd = NoHwnd => ~call.result
        /\ call.fg.iconic => ~call.result

\* Another window is in front, not minimized, with "Gemini" in its title:
\* focused.  (The handle is not the foreground window.)
C18_Witness ==
    /\ call.op = "is_window_active" /\ call.returned
    /\ call.hwnd # NoHwnd /\ call.fg.hwnd # NoHwnd /\ call.hwnd # call.fg.hwnd
    /\ call.fg.title = <<"Gemini">>
    /\ ~call.fg.iconic
    /\ call.result

\* --------------------------------------------------------------- C19
Min(a, b) == IF a <= b THEN a ELSE b

\* C19: for a buffer of width x height cells, both at least 1, the origin
\* (row, column) is the cell max(0, width*height - N) of the flat buffer, the
\* column is within the row and the row within the buffer, and the cells
\* from the origin to the end number min(N, width*height), at most N.
C19_ReadOrigin ==
    call.op = "read_origin" /\ call.returned =>
        LET w == call.width
            h == call.height
            row == call.result.y
            column == call.result.x
            cells == (w * h) - ((row * w) + column)
        IN  /\ (row * w) + column = Max(0, (w * h) - read_len)
            /\ 0 <= column /\ column < w
            /\ 0 <= row /\ row < h
            /\ cells = Min(read_len, w * h)
            /\ cells <= read_len

\* A buffer larger than the budget whose tail starts inside a row.
C19_Witness ==
    /\ call.op = "read_origin" /\ call.returned
    /\ call.width * call.height > read_len
    /\ call.result.x > 0 /\ call.result.y > 0

\* --------------------------------------------------------------- C20
\* C20: a registry entry belongs to the process it was made for: no key of
\* the registry whose process has exited is the pid of a live process (the
\* entry is purged before the pid is in use again), so no step reads the
\* state of such an entry as last_state or requests a notification for it.
C20_EntryOfItsProcess ==
    /\ \A p \in Tracked : p \in orphaned => p \notin alive
    /\ Classified => pid \notin orphaned
    /\ \A r \in out.requests : r.pid \notin orphaned

====
